---- MODULE Spec2Model ----
(***************************************************************************)
(* A model of the jailer support of the firecracker Go SDK: the jailer     *)
(* command builder, the adaptation of a machine's handler lists by the     *)
(* two DevMapper strategies, the handlers the strategies inject           *)
(* (LinkFilesToRootFS, finish.umountDrive) and the namespace mounter.      *)
(*                                                                         *)
(* Strings are modelled as sequences of path components: "" is <<>>,       *)
(* "/img/vmlinux" is <<"/", "img", "vmlinux">>, "vmlinux" is               *)
(* <<"vmlinux">>.  A flag such as "--id" is the one-component string       *)
(* <<"--id">>.                                                             *)
(***************************************************************************)
EXTENDS Integers, Sequences, FiniteSets, TLC

VARIABLES
    b,          \* builder: the JailerCommandBuilder value the caller holds
    res,        \* builder: the value the last With* call returned
    call,       \* builder: the last With* call, [name, arg], or NoCall
    handlers,   \* adaptation: the machine's Handlers, [FcInit, Finish]
    adaptErr,   \* adaptation: what AdaptHandlers returned
    m,          \* machine: [cfg |-> Config] as the handlers see it
    fs,         \* host file system: [names: path -> inode, owner: inode -> ids]
    mounts,     \* mount table: the mounts made, in the order made
    trace,      \* the system calls attempted so far, in order
    ret,        \* what the last handler or mounter method returned
    pc,         \* position of the handler run / of the mounter's user
    mtr,        \* mounter: the *mounter, [UID, GID, NSType]
    threadNs,   \* mounter: the mount namespace of every OS thread
    g           \* mounter: the goroutine, [m |-> its thread, locked |-> pins]

vars == <<b, res, call, handlers, adaptErr, m, fs, mounts, trace, ret, pc,
          mtr, threadNs, g>>

builderVars == <<b, res, call>>
adaptVars   == <<handlers, adaptErr>>
machineVars == <<m, fs, mounts>>
mounterVars == <<mtr, threadNs, g>>

(***************************************************************************)
(* Strings and paths                                                       *)
(***************************************************************************)
EmptyString == <<>>

Root == "/"
Dot  == "."

\* strconv.Itoa
Itoa(n) == <<ToString(n)>>

RECURSIVE DropDots(_)
DropDots(s) ==
    IF s = <<>> THEN <<>>
    ELSE IF Head(s) = Dot \/ Head(s) = Root THEN DropDots(Tail(s))
         ELSE <<Head(s)>> \o DropDots(Tail(s))

\* filepath.Clean, for paths without "..": "." and repeated separators go,
\* the leading separator stays, the empty path is "."
Clean(p) ==
    IF p = <<>> THEN <<Dot>>
    ELSE IF Head(p) = Root THEN <<Root>> \o DropDots(Tail(p))
         ELSE IF DropDots(p) = <<>> THEN <<Dot>> ELSE DropDots(p)

RECURSIVE Flatten(_)
Flatten(elems) ==
    IF elems = <<>> THEN <<>> ELSE Head(elems) \o Flatten(Tail(elems))

\* filepath.Join: empty elements are ignored, the rest is joined by the
\* separator and cleaned; all elements empty gives the empty string
Join(elems) ==
    IF Flatten(elems) = <<>> THEN EmptyString ELSE Clean(Flatten(elems))

\* filepath.Base: the last element; "." for the empty path, "/" for the root
Base(p) ==
    IF p = <<>> THEN <<Dot>>
    ELSE IF DropDots(p) = <<>> THEN <<IF Head(p) = Root THEN Root ELSE Dot>>
         ELSE <<DropDots(p)[Len(DropDots(p))]>>

(***************************************************************************)
(* jailer.go constants                                                     *)
(***************************************************************************)
defaultJailerPath == <<Root, "srv", "jailer">>
defaultJailerBin  == <<"jailer">>
rootfsFolderName  == <<"root">>

SeccompLevelDisable  == 0
SeccompLevelBasic    == 1
SeccompLevelAdvanced == 2
SeccompLevelValue == {SeccompLevelDisable, SeccompLevelBasic, SeccompLevelAdvanced}

(***************************************************************************)
(* JailerCommandBuilder                                                    *)
(***************************************************************************)
Nil == "nil"

\* JailerCommandBuilder{}: Go's zero value of the struct
ZeroBuilder ==
    [bin |-> EmptyString, id |-> EmptyString, uid |-> 0, gid |-> 0,
     execFile |-> EmptyString, node |-> 0, chrootBaseDir |-> EmptyString,
     netNS |-> EmptyString, daemonize |-> FALSE,
     seccompLevel |-> SeccompLevelDisable,
     stdin |-> Nil, stdout |-> Nil, stderr |-> Nil]

ID(bb)            == << <<"--id">>, bb.id >>
UID(bb)           == << <<"--uid">>, Itoa(bb.uid) >>
GID(bb)           == << <<"--gid">>, Itoa(bb.gid) >>
ExecFile(bb)      == << <<"--exec-file">>, bb.execFile >>
NumaNode(bb)      == << <<"--node">>, Itoa(bb.node) >>
ChrootBaseDir(bb) == << <<"--chroot-base-dir">>, bb.chrootBaseDir >>
NetNS(bb)         == << <<"--netns">>, bb.netNS >>
SeccompLevel(bb)  == << <<"--seccomp-level">>, Itoa(bb.seccompLevel) >>

ArgsNetNSFirst(bb) ==
    ID(bb) \o UID(bb) \o GID(bb) \o ExecFile(bb) \o NumaNode(bb)
    \o (IF Len(bb.netNS) > 0 THEN NetNS(bb) ELSE <<>>)
    \o (IF Len(bb.chrootBaseDir) > 0 THEN ChrootBaseDir(bb) ELSE <<>>)
    \o SeccompLevel(bb)
    \o (IF bb.daemonize THEN << <<"--daemonize">> >> ELSE <<>>)

Args(bb) ==
    ID(bb) \o UID(bb) \o GID(bb) \o ExecFile(bb) \o NumaNode(bb)
    \o (IF Len(bb.chrootBaseDir) > 0 THEN ChrootBaseDir(bb) ELSE <<>>)
    \o (IF Len(bb.netNS) > 0 THEN NetNS(bb) ELSE <<>>)
    \o SeccompLevel(bb)
    \o (IF bb.daemonize THEN << <<"--daemonize">> >> ELSE <<>>)

Bin(bb) == IF Len(bb.bin) = 0 THEN defaultJailerBin ELSE bb.bin

Stdin(bb)  == bb.stdin
Stdout(bb) == bb.stdout
Stderr(bb) == bb.stderr

\* A method with a value receiver works on a copy of the receiver: the
\* caller's value (recv) is as before, the copy with the one field assigned
\* is returned (ret).
WithBin(bb, bin)            == [recv |-> bb, ret |-> [bb EXCEPT !.bin = bin]]
WithID(bb, id)              == [recv |-> bb, ret |-> [bb EXCEPT !.id = id]]
WithUID(bb, uid)            == [recv |-> bb, ret |-> [bb EXCEPT !.uid = uid]]
WithGID(bb, gid)            == [recv |-> bb, ret |-> [bb EXCEPT !.gid = gid]]
WithExecFile(bb, path)      == [recv |-> bb, ret |-> [bb EXCEPT !.execFile = path]]
WithNumaNode(bb, node)      == [recv |-> bb, ret |-> [bb EXCEPT !.node = node]]
WithChrootBaseDir(bb, path) == [recv |-> bb, ret |-> [bb EXCEPT !.chrootBaseDir = path]]

WithNetNSByPointer(bb, path) ==
    [recv |-> [bb EXCEPT !.netNS = path], ret |-> [bb EXCEPT !.netNS = path]]

WithNetNS(bb, path)         == [recv |-> bb, ret |-> [bb EXCEPT !.netNS = path]]
WithDaemonize(bb, d)        == [recv |-> bb, ret |-> [bb EXCEPT !.daemonize = d]]
WithSeccompLevel(bb, level) == [recv |-> bb, ret |-> [bb EXCEPT !.seccompLevel = level]]
WithStdout(bb, w)           == [recv |-> bb, ret |-> [bb EXCEPT !.stdout = w]]
WithStderr(bb, w)           == [recv |-> bb, ret |-> [bb EXCEPT !.stderr = w]]
WithStdin(bb, r)            == [recv |-> bb, ret |-> [bb EXCEPT !.stdin = r]]

Setters ==
    {"WithBin", "WithID", "WithUID", "WithGID", "WithExecFile", "WithNumaNode",
     "WithChrootBaseDir", "WithNetNS", "WithDaemonize", "WithSeccompLevel",
     "WithStdout", "WithStderr", "WithStdin"}

\* the call bb.<name>(v)
Apply(name, bb, v) ==
    CASE name = "WithBin"           -> WithBin(bb, v)
      [] name = "WithID"            -> WithID(bb, v)
      [] name = "WithUID"           -> WithUID(bb, v)
      [] name = "WithGID"           -> WithGID(bb, v)
      [] name = "WithExecFile"      -> WithExecFile(bb, v)
      [] name = "WithNumaNode"      -> WithNumaNode(bb, v)
      [] name = "WithChrootBaseDir" -> WithChrootBaseDir(bb, v)
      [] name = "WithNetNS"         -> WithNetNS(bb, v)
      [] name = "WithDaemonize"     -> WithDaemonize(bb, v)
      [] name = "WithSeccompLevel"  -> WithSeccompLevel(bb, v)
      [] name = "WithStdout"        -> WithStdout(bb, v)
      [] name = "WithStderr"        -> WithStderr(bb, v)
      [] name = "WithStdin"         -> WithStdin(bb, v)

(***************************************************************************)
(* The builder's user: a chain of With* calls starting from the zero      *)
(* value, as in JailerCommandBuilder{}.WithID(...).WithUID(...): the user  *)
(* makes a call and goes on with the builder it returned                   *)
(***************************************************************************)
Bins       == {EmptyString, <<Root, "usr", "bin", "jailer">>}
Ids        == {EmptyString, <<"my-test-id">>}
Uids       == {0, 123}
Gids       == {0, 100}
ExecFiles  == {EmptyString, <<Root, "usr", "local", "bin", "firecracker">>}
Nodes      == {0, 1}
BaseDirs   == {EmptyString, <<Root, "tmp">>}
NetNSPaths == {EmptyString, <<Root, "var", "run", "netns", "my-netns">>}
Readers    == {Nil, "os.Stdin"}
Writers    == {Nil, "os.Stdout"}

NoCall == [name |-> "none", arg |-> 0]

IdleBuilder == b = ZeroBuilder /\ res = ZeroBuilder /\ call = NoCall

Returned(name, arg, r) ==
    /\ pc = "builder"
    /\ call.name = "none"
    /\ call' = [name |-> name, arg |-> arg]
    /\ b' = r.recv
    /\ res' = r.ret
    /\ UNCHANGED <<handlers, adaptErr, m, fs, mounts, trace, ret, pc,
                   mtr, threadNs, g>>

\* the values the user passes to each setter
SetterArgs(name) ==
    CASE name = "WithBin"           -> Bins
      [] name = "WithID"            -> Ids
      [] name = "WithUID"           -> Uids
      [] name = "WithGID"           -> Gids
      [] name = "WithExecFile"      -> ExecFiles
      [] name = "WithNumaNode"      -> Nodes
      [] name = "WithChrootBaseDir" -> BaseDirs
      [] name = "WithNetNS"         -> NetNSPaths
      [] name = "WithDaemonize"     -> BOOLEAN
      [] name = "WithSeccompLevel"  -> SeccompLevelValue
      [] name = "WithStdout"        -> Writers
      [] name = "WithStderr"        -> Writers
      [] name = "WithStdin"         -> Readers

CallWith(name) == \E v \in SetterArgs(name) : Returned(name, v, Apply(name, b, v))

CallWithBin           == CallWith("WithBin")
CallWithID            == CallWith("WithID")
CallWithUID           == CallWith("WithUID")
CallWithGID           == CallWith("WithGID")
CallWithExecFile      == CallWith("WithExecFile")
CallWithNumaNode      == CallWith("WithNumaNode")
CallWithChrootBaseDir == CallWith("WithChrootBaseDir")
CallWithNetNS         == CallWith("WithNetNS")
CallWithDaemonize     == CallWith("WithDaemonize")
CallWithSeccompLevel  == CallWith("WithSeccompLevel")
CallWithStdout        == CallWith("WithStdout")
CallWithStderr        == CallWith("WithStderr")
CallWithStdin         == CallWith("WithStdin")

\* the caller goes on with the returned builder: b = b.WithX(v)
Rebind ==
    /\ pc = "builder"
    /\ call.name # "none"
    /\ b' = res
    /\ call' = NoCall
    /\ UNCHANGED <<res, handlers, adaptErr, m, fs, mounts, trace, ret, pc,
                   mtr, threadNs, g>>

(***************************************************************************)
(* Errors and system calls                                                 *)
(*                                                                         *)
(* The system's part in a handler run is env: for every artifact k (0 the  *)
(* kernel image, i the i-th drive) the call the system refuses for it,     *)
(* or "none".                                                              *)
(***************************************************************************)
\* an error value: its kind, the path it is about, and (for an aggregate)
\* the errors it holds
Error(kind, path) == [kind |-> kind, path |-> path, errs |-> <<>>]

ErrNil  == Error("nil", EmptyString)
NotRun  == Error("not run", EmptyString)

ErrCreateMachineHandlerMissing ==
    Error("ErrCreateMachineHandlerMissing", EmptyString)

IsNil(err) == err.kind = "nil"

\* one attempted system call (or external command), as recorded in trace:
\* k is the artifact it is for (0 the kernel image, i the i-th drive)
Sys(op, k, src, dst, uid, gid, ok) ==
    [op |-> op, k |-> k, src |-> src, dst |-> dst, uid |-> uid, gid |-> gid,
     ok |-> ok]

NoId == 0 - 1

(***************************************************************************)
(* Handler lists                                                           *)
(***************************************************************************)
CreateMachineHandlerName     == "fcinit.CreateMachine"
LinkFilesToRootFSHandlerName == "fcinit.LinkFilesToRootFS"
MountToRootFSHandlerName     == "MountToRootFS"
UmountDriveHandlerName       == "finish.umountDrive"

\* a Handler: its name and its function; a function is named by the code
\* that defines it together with the values its closure captured
Fn(fn, rootfs, kernelImageFileName) ==
    [fn |-> fn, rootfs |-> rootfs, kernelImageFileName |-> kernelImageFileName]

Handler(name, fn) == [Name |-> name, Fn |-> fn]

UserHandler(name) == Handler(name, Fn("user", EmptyString, EmptyString))

Has(l, name) == \E i \in 1..Len(l) : l[i].Name = name

RECURSIVE AppendAfter(_, _, _)
AppendAfter(l, name, handler) ==
    IF l = <<>> THEN <<>>
    ELSE IF Head(l).Name = name
         THEN <<Head(l), handler>> \o Tail(l)
         ELSE <<Head(l)>> \o AppendAfter(Tail(l), name, handler)

Swap(l, handler) ==
    [i \in 1..Len(l) |-> IF l[i].Name = handler.Name THEN handler ELSE l[i]]

Swappend(l, handler) ==
    IF Has(l, handler.Name) THEN Swap(l, handler) ELSE Append(l, handler)

(***************************************************************************)
(* JailerConfig                                                            *)
(***************************************************************************)
chrootBaseDir(jcfg) ==
    IF Len(jcfg.ChrootBaseDir) = 0 THEN defaultJailerPath ELSE jcfg.ChrootBaseDir

rootDir(jcfg) ==
    Join(<<chrootBaseDir(jcfg), <<"firecracker">>, jcfg.ID, rootfsFolderName>>)

(***************************************************************************)
(* The link strategy                                                       *)
(***************************************************************************)
\* os.Link(src, dst): a new name dst for the file (inode) src names; fails
\* when src is missing, when dst exists, or when the system refuses (env)
OsLink(st, k, src, dst, env) ==
    LET ok == /\ src \in DOMAIN st.fs.names
              /\ dst \notin DOMAIN st.fs.names
              /\ env[k] # "link"
    IN [fs    |-> IF ok
                  THEN [st.fs EXCEPT !.names = (dst :> st.fs.names[src]) @@ @]
                  ELSE st.fs,
        trace |-> Append(st.trace, Sys("link", k, src, dst, NoId, NoId, ok)),
        err   |-> IF ok THEN ErrNil ELSE Error("link", dst)]

\* os.Chown(name, uid, gid): the owner of the file (inode) that name names
OsChown(st, k, name, uid, gid, env) ==
    LET ok == name \in DOMAIN st.fs.names /\ env[k] # "chown"
    IN [fs    |-> IF ok
                  THEN [st.fs EXCEPT !.owner[st.fs.names[name]] =
                                         [uid |-> uid, gid |-> gid]]
                  ELSE st.fs,
        trace |-> Append(st.trace, Sys("chown", k, EmptyString, name, uid, gid, ok)),
        err   |-> IF ok THEN ErrNil ELSE Error("chown", name)]

linkFileToRootFSNoChown(st, k, jcfg, dst, src, env) ==
    OsLink(st, k, src, dst, env)

linkFileToRootFS(st, k, jcfg, dst, src, env) ==
    LET l == OsLink(st, k, src, dst, env)
    IN IF ~IsNil(l.err) THEN l
       ELSE OsChown(l, k, dst, jcfg.UID, jcfg.GID, env)

\* the loop over m.cfg.Drives of LinkFilesHandler, from drive i on;
\* st is [cfg, fs, trace, err]
RECURSIVE LinkDrives(_, _, _, _)
LinkDrives(i, st, rootfs, env) ==
    IF i > Len(st.cfg.Drives) THEN st
    ELSE LET hostPath      == st.cfg.Drives[i].PathOnHost
             driveFileName == Base(hostPath)
             r == linkFileToRootFS(st, i, st.cfg.JailerCfg,
                                   Join(<<rootfs, driveFileName>>), hostPath, env)
         IN IF ~IsNil(r.err)
            THEN [st EXCEPT !.fs = r.fs, !.trace = r.trace, !.err = r.err]
            ELSE LinkDrives(i + 1,
                            [st EXCEPT !.fs = r.fs, !.trace = r.trace,
                                       !.cfg.Drives[i].PathOnHost = driveFileName],
                            rootfs, env)

LinkFilesFnContinue(rootfs, kernelImageFileName, st, env) ==
    LET r == linkFileToRootFS(st, 0, st.cfg.JailerCfg,
                              Join(<<rootfs, kernelImageFileName>>),
                              st.cfg.KernelImagePath, env)
        d == LinkDrives(1, [st EXCEPT !.fs = r.fs, !.trace = r.trace], rootfs, env)
    IN IF ~IsNil(r.err) /\ IsNil(d.err) THEN [d EXCEPT !.err = r.err]
       ELSE IF ~IsNil(d.err) THEN d
       ELSE [d EXCEPT !.cfg.KernelImagePath = kernelImageFileName]

LinkFilesFnRewriteKernelFirst(rootfs, kernelImageFileName, st, env) ==
    LET r == linkFileToRootFS(st, 0, st.cfg.JailerCfg,
                              Join(<<rootfs, kernelImageFileName>>),
                              st.cfg.KernelImagePath, env)
    IN IF ~IsNil(r.err)
       THEN [st EXCEPT !.fs = r.fs, !.trace = r.trace, !.err = r.err]
       ELSE LinkDrives(1, [st EXCEPT !.fs = r.fs, !.trace = r.trace,
                                     !.cfg.KernelImagePath = kernelImageFileName],
                       rootfs, env)

\* the function of the handler LinkFilesHandler(rootfs, kernelImageFileName)
LinkFilesFn(rootfs, kernelImageFileName, st, env) ==
    LET r == linkFileToRootFS(st, 0, st.cfg.JailerCfg,
                              Join(<<rootfs, kernelImageFileName>>),
                              st.cfg.KernelImagePath, env)
    IN IF ~IsNil(r.err)
       THEN [st EXCEPT !.fs = r.fs, !.trace = r.trace, !.err = r.err]
       ELSE LET d == LinkDrives(1, [st EXCEPT !.fs = r.fs, !.trace = r.trace],
                                rootfs, env)
            IN IF ~IsNil(d.err) THEN d
               ELSE [d EXCEPT !.cfg.KernelImagePath = kernelImageFileName]

LinkFilesHandler(rootfs, kernelImageFileName) ==
    Handler(LinkFilesToRootFSHandlerName,
            Fn("LinkFiles", rootfs, kernelImageFileName))

NaiveDevMapperStrategy(rootfs, kernelImagePath) ==
    [kind |-> "naive", Rootfs |-> rootfs, KernelImagePath |-> kernelImagePath]

NaiveAdaptHandlersInjectFirst(s, h) ==
    [handlers |-> [h EXCEPT !.FcInit =
                       Swappend(@, LinkFilesHandler(Join(<<s.Rootfs, rootfsFolderName>>),
                                                    Base(s.KernelImagePath)))],
     err |-> IF Has(h.FcInit, CreateMachineHandlerName)
             THEN ErrNil ELSE ErrCreateMachineHandlerMissing]

\* NaiveDevMapperStrategy.AdaptHandlers
NaiveAdaptHandlers(s, h) ==
    IF ~Has(h.FcInit, CreateMachineHandlerName)
    THEN [handlers |-> h, err |-> ErrCreateMachineHandlerMissing]
    ELSE [handlers |-> [h EXCEPT !.FcInit =
                           AppendAfter(@, CreateMachineHandlerName,
                                       LinkFilesHandler(Join(<<s.Rootfs, rootfsFolderName>>),
                                                        Base(s.KernelImagePath)))],
          err |-> ErrNil]

(***************************************************************************)
(* The bind-mount strategy                                                 *)
(***************************************************************************)
RECURSIVE RemoveLast(_, _)
RemoveLast(seq, target) ==
    IF seq = <<>> THEN <<>>
    ELSE IF seq[Len(seq)].target = target THEN SubSeq(seq, 1, Len(seq) - 1)
         ELSE Append(RemoveLast(SubSeq(seq, 1, Len(seq) - 1), target), seq[Len(seq)])

IsMounted(mnts, target) == \E i \in 1..Len(mnts) : mnts[i].target = target

\* syscall.Unmount(target, MNT_FORCE): fails when nothing is mounted at
\* target, or when the system refuses (env); the jail's mounts are taken
\* to be visible to the caller (shared propagation)
SysUnmount(st, k, target, env) ==
    LET ok == IsMounted(st.mounts, target) /\ env[k] # "umount"
    IN [st EXCEPT
          !.mounts = IF ok THEN RemoveLast(@, target) ELSE @,
          !.trace = Append(@, Sys("umount", k, EmptyString, target, NoId, NoId, ok)),
          !.err = IF ok THEN ErrNil ELSE Error("umount", target)]

\* var errs *multierror.Error
NilMultierror == [nil |-> TRUE, Errors |-> <<>>]

\* multierror.Append(errs, err): a nil *Error is replaced by a fresh Error,
\* which is what the call returns (ret); the caller's pointer (target) is
\* as it was, and a non-nil Error is appended to in place
MultierrorAppend(errs, err) ==
    [ret    |-> [nil |-> FALSE, Errors |-> Append(errs.Errors, err)],
     target |-> IF errs.nil THEN errs ELSE [errs EXCEPT !.Errors = Append(@, err)]]

\* (*multierror.Error).ErrorOrNil
ErrorOrNil(errs) ==
    IF errs.nil THEN ErrNil
    ELSE IF Len(errs.Errors) = 0 THEN ErrNil
         ELSE [kind |-> "multierror", path |-> EmptyString, errs |-> errs.Errors]

\* one unmount of finish.umountDrive; the statement
\* multierror.Append(errs, err) drops what Append returns
UmountOne(st, errs, k, target, env) ==
    LET u == SysUnmount(st, k, target, env)
    IN [st   |-> u,
        errs |-> IF ~IsNil(u.err) THEN MultierrorAppend(errs, u.err).target
                 ELSE errs]

RECURSIVE UmountDrivesFailFast(_, _, _, _, _)
UmountDrivesFailFast(i, st, errs, rootDirPath, env) ==
    IF i > Len(st.cfg.Drives) \/ ~IsNil(st.err) THEN [st |-> st, errs |-> errs]
    ELSE LET u == UmountOne(st, errs, i,
                            Join(<<rootDirPath, st.cfg.Drives[i].PathOnHost>>), env)
         IN UmountDrivesFailFast(i + 1, u.st, u.errs, rootDirPath, env)

\* the loop over m.cfg.Drives of finish.umountDrive, from drive i on
RECURSIVE UmountDrives(_, _, _, _, _)
UmountDrives(i, st, errs, rootDirPath, env) ==
    IF i > Len(st.cfg.Drives) THEN [st |-> st, errs |-> errs]
    ELSE LET u == UmountOne(st, errs, i,
                            Join(<<rootDirPath, st.cfg.Drives[i].PathOnHost>>), env)
         IN UmountDrives(i + 1, u.st, u.errs, rootDirPath, env)

\* the function of the handler finish.umountDrive
UmountDriveFn(st, env) ==
    LET rootDirPath     == rootDir(st.cfg.JailerCfg)
        kernelImagePath == Join(<<rootDirPath, st.cfg.KernelImagePath>>)
        k == UmountOne(st, NilMultierror, 0, kernelImagePath, env)
        d == UmountDrives(1, k.st, k.errs, rootDirPath, env)
    IN [d.st EXCEPT !.err = ErrorOrNil(d.errs)]

\* m.cmd.Process: nil until the command is started, then the process
NoProcess == <<>>
Process(pid) == <<[Pid |-> pid]>>

\* the mount namespaces: the SDK's own and the jailed process's
HostNs == "host"
JailNs == "jail"

MountEntry(src, target, ns, ro) == [src |-> src, target |-> target, ns |-> ns, ro |-> ro]

\* os.Stat(src) with os.IsNotExist: whether src is missing
StatNotExist(st, k, src, env) ==
    src \notin DOMAIN st.fs.names \/ env[k] = "stat"

bindMountIgnoreTouch(st, k, src, target, pid, uid, gid, env) ==
    IF StatNotExist(st, k, src, env)
    THEN [st EXCEPT !.err = Error("could not be found", src)]
    ELSE LET mountOk == env[k] # "mount"
         IN [st EXCEPT
               !.trace = Append(Append(@, Sys("touch", k, EmptyString, target,
                                              NoId, NoId, env[k] # "touch")),
                                Sys("mount", k, src, target, NoId, NoId, mountOk)),
               !.mounts = IF mountOk
                          THEN Append(@, MountEntry(src, target, JailNs, FALSE))
                          ELSE @,
               !.err = IF mountOk THEN ErrNil ELSE Error("mount", target)]

\* bindMount(src, target, pid, uid, gid): two nsenter commands
bindMount(st, k, src, target, pid, uid, gid, env) ==
    IF StatNotExist(st, k, src, env)
    THEN [st EXCEPT !.err = Error("could not be found", src)]
    ELSE LET touchOk == env[k] # "touch"
             t == [st EXCEPT !.trace = Append(@, Sys("touch", k, EmptyString, target,
                                                     NoId, NoId, touchOk))]
         IN IF ~touchOk THEN [t EXCEPT !.err = Error("touch", target)]
            ELSE LET mountOk == env[k] # "mount"
                 IN [t EXCEPT
                       !.trace = Append(@, Sys("mount", k, src, target,
                                               NoId, NoId, mountOk)),
                       !.mounts = IF mountOk
                                  THEN Append(@, MountEntry(src, target, JailNs, FALSE))
                                  ELSE @,
                       !.err = IF mountOk THEN ErrNil ELSE Error("mount", target)]

RECURSIVE MountDrivesNoRewrite(_, _, _, _, _, _)
MountDrivesNoRewrite(i, st, rootDirPath, uid, gid, env) ==
    IF i > Len(st.cfg.Drives) THEN st
    ELSE LET hostPath           == st.cfg.Drives[i].PathOnHost
             driveFileName      == Base(hostPath)
             mountDriveFilePath == Join(<<rootDirPath, driveFileName>>)
             r == bindMount(st, i, hostPath, mountDriveFilePath,
                            st.cmd.Process[1].Pid, uid, gid, env)
         IN IF ~IsNil(r.err)
            THEN [r EXCEPT !.err = Error("failed to mount drive", mountDriveFilePath)]
            ELSE MountDrivesNoRewrite(i + 1, r, rootDirPath, uid, gid, env)

\* the loop over m.cfg.Drives of BindMountDevMapperStrategy.handler
RECURSIVE MountDrives(_, _, _, _, _, _)
MountDrives(i, st, rootDirPath, uid, gid, env) ==
    IF i > Len(st.cfg.Drives) THEN st
    ELSE LET hostPath           == st.cfg.Drives[i].PathOnHost
             driveFileName      == Base(hostPath)
             mountDriveFilePath == Join(<<rootDirPath, driveFileName>>)
             r == bindMount(st, i, hostPath, mountDriveFilePath,
                            st.cmd.Process[1].Pid, uid, gid, env)
         IN IF ~IsNil(r.err)
            THEN [r EXCEPT !.err = Error("failed to mount drive", mountDriveFilePath)]
            ELSE MountDrives(i + 1,
                             [r EXCEPT !.cfg.Drives[i].PathOnHost = driveFileName],
                             rootDirPath, uid, gid, env)

MountToRootFSFnContinue(st, env) ==
    LET rootDirPath     == rootDir(st.cfg.JailerCfg)
        kernelImageName == Base(st.cfg.KernelImagePath)
        kernelImagePath == Join(<<rootDirPath, kernelImageName>>)
        uid == st.cfg.JailerCfg.UID
        gid == st.cfg.JailerCfg.GID
    IN IF st.cmd.Process = NoProcess
       THEN [st EXCEPT !.err = Error("panic: nil pointer dereference", EmptyString)]
       ELSE LET r == bindMount(st, 0, st.cfg.KernelImagePath, kernelImagePath,
                               st.cmd.Process[1].Pid, uid, gid, env)
                d == MountDrives(1, [r EXCEPT !.cfg.KernelImagePath = kernelImageName],
                                 rootDirPath, uid, gid, env)
            IN IF ~IsNil(r.err)
               THEN [d EXCEPT !.err = Error("failed to mount kernel image", r.err.path)]
               ELSE d

\* BindMountDevMapperStrategy.handler; m.cmd.Process is nil until the
\* command is started, and m.cmd.Process.Pid then panics
MountToRootFSFn(st, env) ==
    LET rootDirPath     == rootDir(st.cfg.JailerCfg)
        kernelImageName == Base(st.cfg.KernelImagePath)
        kernelImagePath == Join(<<rootDirPath, kernelImageName>>)
        uid == st.cfg.JailerCfg.UID
        gid == st.cfg.JailerCfg.GID
    IN IF st.cmd.Process = NoProcess
       THEN [st EXCEPT !.err = Error("panic: nil pointer dereference", EmptyString)]
       ELSE LET r == bindMount(st, 0, st.cfg.KernelImagePath, kernelImagePath,
                               st.cmd.Process[1].Pid, uid, gid, env)
            IN IF ~IsNil(r.err)
               THEN [r EXCEPT !.err = Error("failed to mount kernel image", r.err.path)]
               ELSE MountDrives(1, [r EXCEPT !.cfg.KernelImagePath = kernelImageName],
                                rootDirPath, uid, gid, env)

BindMountDevMapperStrategy ==
    [kind |-> "bindmount", Rootfs |-> EmptyString, KernelImagePath |-> EmptyString]

BindMountAdaptHandlersAppendFinish(s, h) ==
    IF ~Has(h.FcInit, CreateMachineHandlerName)
    THEN [handlers |-> h, err |-> ErrCreateMachineHandlerMissing]
    ELSE [handlers |->
            [FcInit |-> AppendAfter(h.FcInit, CreateMachineHandlerName,
                                    Handler(MountToRootFSHandlerName,
                                            Fn("s.handler", EmptyString, EmptyString))),
             Finish |-> Append(h.Finish,
                               Handler(UmountDriveHandlerName,
                                       Fn("umountDrive", EmptyString, EmptyString)))],
          err |-> ErrNil]

\* BindMountDevMapperStrategy.AdaptHandlers
BindMountAdaptHandlers(s, h) ==
    IF ~Has(h.FcInit, CreateMachineHandlerName)
    THEN [handlers |-> h, err |-> ErrCreateMachineHandlerMissing]
    ELSE [handlers |->
            [FcInit |-> AppendAfter(h.FcInit, CreateMachineHandlerName,
                                    Handler(MountToRootFSHandlerName,
                                            Fn("s.handler", EmptyString, EmptyString))),
             Finish |-> Swappend(h.Finish,
                                 Handler(UmountDriveHandlerName,
                                         Fn("umountDrive", EmptyString, EmptyString)))],
          err |-> ErrNil]

(***************************************************************************)
(* jail: the jailer command and the adapted handlers                       *)
(***************************************************************************)
\* JailerCommandBuilder.Build: the exec.Cmd, whose Args start with the
\* command's name and whose Process is nil until it is started
Build(bb) ==
    [Path    |-> Bin(bb),
     Args    |-> <<Bin(bb)>> \o Args(bb),
     Stdin   |-> Stdin(bb),
     Stdout  |-> Stdout(bb),
     Stderr  |-> Stderr(bb),
     Process |-> NoProcess]

\* DevMapperStrategy.AdaptHandlers, by the strategy's type
AdaptHandlers(s, h) ==
    IF s.kind = "naive" THEN NaiveAdaptHandlers(s, h) ELSE BindMountAdaptHandlers(s, h)

\* jail(ctx, m, cfg), with h the machine's Handlers
jail(mm, cfg, h) ==
    LET chroot == chrootBaseDir(cfg.JailerCfg)
        rootfs == Join(<<chroot, <<"firecracker">>, cfg.JailerCfg.ID>>)
        b1  == WithID(ZeroBuilder, cfg.JailerCfg.ID).ret
        b2  == WithUID(b1, cfg.JailerCfg.UID).ret
        b3  == WithGID(b2, cfg.JailerCfg.GID).ret
        b4  == WithNumaNode(b3, cfg.JailerCfg.NumaNode).ret
        b5  == WithExecFile(b4, cfg.JailerCfg.ExecFile).ret
        b6  == WithChrootBaseDir(b5, cfg.JailerCfg.ChrootBaseDir).ret
        b7  == WithDaemonize(b6, cfg.JailerCfg.Daemonize).ret
        b8  == WithSeccompLevel(b7, cfg.JailerCfg.SeccompLevel).ret
        b9  == WithStdout(b8, "os.Stdout").ret
        b10 == WithStderr(b9, "os.Stderr").ret
        a   == AdaptHandlers(cfg.JailerCfg.DevMapperStrategy, h)
    IN [cfg      |-> [cfg EXCEPT !.SocketPath = Join(<<rootfs, <<"api.socket">>>>)],
        cmd      |-> Build(b10),
        handlers |-> a.handlers,
        err      |-> a.err]

(***************************************************************************)
(* mount.go: the namespace mounter                                         *)
(*                                                                         *)
(* st is [threadNs, g, mounts, trace, err]; fail is the call of this       *)
(* method run that the system refuses, or "none".                          *)
(***************************************************************************)
mntNSType == "mnt"

newMounter(uid, gid, nstype) == [UID |-> uid, GID |-> gid, NSType |-> nstype]

\* runtime.LockOSThread: one more pin of the goroutine to its thread
LockOSThread(gg) == [gg EXCEPT !.locked = @ + 1]

\* runtime.UnlockOSThread: undoes one LockOSThread; a no-op without one
UnlockOSThread(gg) == [gg EXCEPT !.locked = IF @ = 0 THEN 0 ELSE @ - 1]

\* the mount namespace /proc/<pid>/ns/mnt names
NsOfPid(pid, self) == IF pid = self THEN HostNs ELSE JailNs

MounterMountIgnoreChown(mt, st, src, target, readOnly, fail) ==
    LET ns == st.threadNs[st.g.m]
        l  == [st EXCEPT !.g = LockOSThread(@),
                         !.trace = Append(@, Sys("create", 1, EmptyString, target,
                                                 NoId, NoId, fail # "create"))]
    IN IF fail = "create" THEN [l EXCEPT !.err = Error("Failed to create", target)]
       ELSE
       LET mo == [l EXCEPT
                    !.trace = Append(@, Sys("mount", 1, src, target, NoId, NoId,
                                            fail # "mount")),
                    !.mounts = IF fail # "mount"
                               THEN Append(@, MountEntry(src, target, ns, FALSE))
                               ELSE @]
       IN IF fail = "mount" THEN [mo EXCEPT !.err = Error("Failed to mount", target)]
          ELSE
          LET c == [mo EXCEPT
                      !.trace = Append(@, Sys("chown", 1, EmptyString, target,
                                              mt.UID, mt.GID, fail # "chown"))]
          IN IF ~readOnly THEN [c EXCEPT !.err = ErrNil]
             ELSE
             LET r == [c EXCEPT
                         !.trace = Append(@, Sys("remount", 1, src, target, NoId,
                                                 NoId, fail # "remount")),
                         !.mounts = IF fail # "remount"
                                    THEN Append(RemoveLast(@, target),
                                                MountEntry(src, target, ns, TRUE))
                                    ELSE @]
             IN IF fail = "remount"
                THEN [r EXCEPT !.err = Error("Failed to mount", target)]
                ELSE [r EXCEPT !.err = ErrNil]

\* mounter.Mount
MounterMount(mt, st, src, target, readOnly, fail) ==
    LET ns == st.threadNs[st.g.m]
        l  == [st EXCEPT !.g = LockOSThread(@),
                         !.trace = Append(@, Sys("create", 1, EmptyString, target,
                                                 NoId, NoId, fail # "create"))]
    IN IF fail = "create" THEN [l EXCEPT !.err = Error("Failed to create", target)]
       ELSE
       LET mo == [l EXCEPT
                    !.trace = Append(@, Sys("mount", 1, src, target, NoId, NoId,
                                            fail # "mount")),
                    !.mounts = IF fail # "mount"
                               THEN Append(@, MountEntry(src, target, ns, FALSE))
                               ELSE @]
       IN IF fail = "mount" THEN [mo EXCEPT !.err = Error("Failed to mount", target)]
          ELSE
          LET c == [mo EXCEPT
                      !.trace = Append(@, Sys("chown", 1, EmptyString, target,
                                              mt.UID, mt.GID, fail # "chown"))]
          IN IF fail = "chown"
             THEN [c EXCEPT !.err = Error("Failed to change ownership", target)]
             ELSE IF ~readOnly THEN [c EXCEPT !.err = ErrNil]
             ELSE
             LET r == [c EXCEPT
                         !.trace = Append(@, Sys("remount", 1, src, target, NoId,
                                                 NoId, fail # "remount")),
                         !.mounts = IF fail # "remount"
                                    THEN Append(RemoveLast(@, target),
                                                MountEntry(src, target, ns, TRUE))
                                    ELSE @]
             IN IF fail = "remount"
                THEN [r EXCEPT !.err = Error("Failed to mount", target)]
                ELSE [r EXCEPT !.err = ErrNil]

\* mounter.Close
MounterClose(mt, st) == [st EXCEPT !.g = UnlockOSThread(@), !.err = ErrNil]

\* mounter.EnterNS: unix.Open of the namespace file, then unix.Setns, which
\* moves the thread the goroutine is running on
MounterEnterNS(mt, st, pid, self, fail) ==
    LET o == [st EXCEPT !.trace = Append(@, Sys("open", 0, EmptyString,
                                                <<Root, "proc", ToString(pid), "ns", mt.NSType>>,
                                                NoId, NoId, fail # "open"))]
    IN IF fail = "open" THEN [o EXCEPT !.err = Error("failed to open namespace", EmptyString)]
       ELSE [o EXCEPT
               !.trace = Append(@, Sys("setns", 0, EmptyString,
                                       <<Root, "proc", ToString(pid), "ns", mt.NSType>>,
                                       NoId, NoId, fail # "setns")),
               !.threadNs = IF fail # "setns"
                            THEN [@ EXCEPT ![st.g.m] = NsOfPid(pid, self)]
                            ELSE @,
               !.err = IF fail # "setns" THEN ErrNil
                       ELSE Error("failed to setns", EmptyString)]

(***************************************************************************)
(* Configurations                                                          *)
(***************************************************************************)
MaxDrives   == 2
MaxHandlers == 2
MaxMounts   == 3

KernelPaths == {<<Root, "img", "vmlinux">>, <<Root, "path", "to", "kernel">>}
DrivePaths  == {<<Root, "data", "disk.img">>, <<Root, "first", "drive.img">>,
                <<Root, "second", "drive.img">>}
HostFiles   == KernelPaths \cup DrivePaths

Drive(path, readOnly) == [PathOnHost |-> path, IsReadOnly |-> readOnly]
Drives     == {Drive(p, ro) : p \in DrivePaths, ro \in BOOLEAN}
DriveLists == UNION {[1..n -> Drives] : n \in 0..MaxDrives}

JailRootfs == <<Root, "srv", "jailer", "firecracker", "my-test-id">>

NaiveStrategies == {NaiveDevMapperStrategy(JailRootfs, k) : k \in KernelPaths}

JailerConfig(baseDir, strategy) ==
    [GID |-> 100, UID |-> 123, ID |-> <<"my-test-id">>, NumaNode |-> 0,
     ExecFile |-> <<Root, "usr", "local", "bin", "firecracker">>,
     ChrootBaseDir |-> baseDir, NetNS |-> EmptyString, Daemonize |-> FALSE,
     SeccompLevel |-> SeccompLevelDisable, DevMapperStrategy |-> strategy]

Config(kernel, drives, jcfg) ==
    [SocketPath |-> <<Root, "tmp", "firecracker.sock">>,
     KernelImagePath |-> kernel, Drives |-> drives, JailerCfg |-> jcfg]

Machine(cfg, process) == [cfg |-> cfg, cmd |-> [Process |-> process]]

\* the host's files: every kernel image and drive, each its own inode,
\* owned by root
InitFs ==
    [names |-> [p \in HostFiles |-> p],
     owner |-> [p \in HostFiles |-> [uid |-> 0, gid |-> 0]]]

DefaultHandlers ==
    [FcInit |-> <<UserHandler("fcinit.StartVMM"), UserHandler(CreateMachineHandlerName)>>,
     Finish |-> <<>>]

FcInitNames == {CreateMachineHandlerName, "fcinit.StartVMM", "fcinit.BootstrapLogging"}
FinishNames == {UmountDriveHandlerName, "finish.other"}

\* the lists of at most MaxHandlers user handlers with distinct names
HandlerLists(names) ==
    {[i \in 1..Len(l) |-> UserHandler(l[i])] :
        l \in {s \in UNION {[1..n -> names] : n \in 0..MaxHandlers} :
                 \A i, j \in 1..Len(s) : i # j => s[i] # s[j]}}

Threads == {"T1", "T2"}
\* the process ids: the SDK's own process and the jailed firecracker
Pids == [self |-> 1, jailed |-> 4242]
SelfPid   == Pids.self
JailedPid == Pids.jailed

IdleAdapt   == handlers = DefaultHandlers /\ adaptErr = NotRun
IdleMachine ==
    /\ m = Machine(Config(<<Root, "img", "vmlinux">>, <<>>,
                          JailerConfig(EmptyString, BindMountDevMapperStrategy)),
                   NoProcess)
    /\ fs = InitFs
    /\ mounts = <<>>
IdleMounter ==
    /\ mtr = newMounter(123, 100, mntNSType)
    /\ threadNs = [t \in Threads |-> HostNs]
    /\ g = [m |-> "T1", locked |-> 0]
IdleRun == trace = <<>> /\ ret = NotRun

(***************************************************************************)
(* Adaptation of the handler lists (the call jail makes)                   *)
(***************************************************************************)
Adapted(r) ==
    /\ handlers' = r.handlers
    /\ adaptErr' = r.err
    /\ pc' = IF IsNil(r.err) THEN "adapted" ELSE "adaptFailed"
    /\ UNCHANGED <<b, res, call, m, fs, mounts, trace, ret, mtr, threadNs, g>>

NaiveAdapt ==
    /\ pc = "configured"
    /\ m.cfg.JailerCfg.DevMapperStrategy.kind = "naive"
    /\ Adapted(NaiveAdaptHandlers(m.cfg.JailerCfg.DevMapperStrategy, handlers))

BindMountAdapt ==
    /\ pc = "configured"
    /\ m.cfg.JailerCfg.DevMapperStrategy.kind = "bindmount"
    /\ Adapted(BindMountAdaptHandlers(m.cfg.JailerCfg.DevMapperStrategy, handlers))

(***************************************************************************)
(* The machine runs its handlers                                           *)
(***************************************************************************)
HandlerState ==
    [cfg |-> m.cfg, cmd |-> m.cmd, fs |-> fs, mounts |-> mounts, trace |-> trace,
     err |-> ErrNil]

Artifacts == 0..Len(m.cfg.Drives)

Handled(r, next) ==
    /\ m' = [m EXCEPT !.cfg = r.cfg]
    /\ fs' = r.fs
    /\ mounts' = r.mounts
    /\ trace' = r.trace
    /\ ret' = r.err
    /\ pc' = next
    /\ UNCHANGED <<b, res, call, handlers, adaptErr, mtr, threadNs, g>>

\* the FcInit handler fcinit.LinkFilesToRootFS runs
RunLinkFilesToRootFS ==
    /\ pc = "adapted"
    /\ \E i \in 1..Len(handlers.FcInit) :
         /\ handlers.FcInit[i].Fn.fn = "LinkFiles"
         /\ \E env \in [Artifacts -> {"none", "link", "chown"}] :
              Handled(LinkFilesFn(handlers.FcInit[i].Fn.rootfs,
                                  handlers.FcInit[i].Fn.kernelImageFileName,
                                  HandlerState, env),
                      "provisioned")

\* the FcInit handler MountToRootFS runs
RunMountToRootFS ==
    /\ pc = "adapted"
    /\ \E i \in 1..Len(handlers.FcInit) :
         /\ handlers.FcInit[i].Fn.fn = "s.handler"
         /\ \E env \in [Artifacts -> {"none", "stat", "touch", "mount"}] :
              Handled(MountToRootFSFn(HandlerState, env), "provisioned")

\* the Finish handler finish.umountDrive runs (not after a panic)
RunUmountDrive ==
    /\ pc \in {"adapted", "provisioned"}
    /\ ret.kind # "panic: nil pointer dereference"
    /\ \E i \in 1..Len(handlers.Finish) :
         /\ handlers.Finish[i].Fn.fn = "umountDrive"
         /\ \E env \in [Artifacts -> {"none", "umount"}] :
              Handled(UmountDriveFn(HandlerState, env), "finished")

(***************************************************************************)
(* A user of the mounter: EnterNS, some Mounts, Close                      *)
(***************************************************************************)
MounterState ==
    [threadNs |-> threadNs, g |-> g, mounts |-> mounts, trace |-> trace,
     err |-> ErrNil]

\* call is the method called and (EnterNS) its pid or (Mount) its readOnly
MounterDid(name, arg, r, next) ==
    /\ call' = [name |-> name, arg |-> arg]
    /\ threadNs' = r.threadNs
    /\ g' = r.g
    /\ mounts' = r.mounts
    /\ trace' = r.trace
    /\ ret' = r.err
    /\ pc' = next
    /\ UNCHANGED <<b, res, handlers, adaptErr, m, fs, mtr>>

MountCalls == Len(SelectSeq(trace, LAMBDA e : e.op = "create"))

EnterNS ==
    /\ pc = "new"
    /\ \E pid \in {SelfPid, JailedPid}, fail \in {"none", "open", "setns"} :
         LET r == MounterEnterNS(mtr, MounterState, pid, SelfPid, fail)
         IN MounterDid("EnterNS", pid, r,
                       IF IsNil(r.err) THEN "entered" ELSE "enterFailed")

DoMount ==
    /\ pc = "entered"
    /\ MountCalls < MaxMounts
    /\ \E readOnly \in BOOLEAN,
          fail \in {"none", "create", "mount", "chown", "remount"} :
         MounterDid("Mount", readOnly,
                    MounterMount(mtr, MounterState, <<Root, "img", "vmlinux">>,
                                 <<Root, "vmlinux">>, readOnly, fail),
                    "entered")

Close ==
    /\ pc \in {"entered", "enterFailed"}
    /\ MounterDid("Close", 0, MounterClose(mtr, MounterState), "closed")

\* the scheduler moves a goroutine that is not locked to another thread
Migrate ==
    /\ pc \in {"new", "entered", "enterFailed", "closed"}
    /\ g.locked = 0
    /\ \E t \in Threads \ {g.m} : g' = [g EXCEPT !.m = t]
    /\ UNCHANGED <<b, res, call, handlers, adaptErr, m, fs, mounts, trace, ret,
                   pc, mtr, threadNs>>

(***************************************************************************)
(* Specifications                                                          *)
(***************************************************************************)
InitBuilder ==
    /\ IdleBuilder /\ IdleAdapt /\ IdleMachine /\ IdleMounter /\ IdleRun
    /\ pc = "builder"

NextBuilder ==
    \/ CallWithBin \/ CallWithID \/ CallWithUID \/ CallWithGID
    \/ CallWithExecFile \/ CallWithNumaNode \/ CallWithChrootBaseDir
    \/ CallWithNetNS \/ CallWithDaemonize \/ CallWithSeccompLevel
    \/ CallWithStdout \/ CallWithStderr \/ CallWithStdin
    \/ Rebind

SpecBuilder == InitBuilder /\ [][NextBuilder]_vars

InitAdapt ==
    /\ IdleBuilder /\ IdleMounter /\ IdleRun
    /\ handlers \in [FcInit : HandlerLists(FcInitNames),
                     Finish : HandlerLists(FinishNames)]
    /\ adaptErr = NotRun
    /\ \E s \in NaiveStrategies \cup {BindMountDevMapperStrategy} :
         m = Machine(Config(<<Root, "img", "vmlinux">>, <<>>,
                            JailerConfig(EmptyString, s)), NoProcess)
    /\ fs = InitFs
    /\ mounts = <<>>
    /\ pc = "configured"

NextAdapt == NaiveAdapt \/ BindMountAdapt

SpecAdapt == InitAdapt /\ [][NextAdapt]_vars

InitLink ==
    /\ IdleBuilder /\ IdleAdapt /\ IdleMounter /\ IdleRun
    /\ \E kernel \in KernelPaths, drives \in DriveLists, s \in NaiveStrategies :
         m = Machine(Config(kernel, drives, JailerConfig(EmptyString, s)),
                     Process(JailedPid))
    /\ fs = InitFs
    /\ mounts = <<>>
    /\ pc = "configured"

NextLink == NaiveAdapt \/ RunLinkFilesToRootFS

SpecLink == InitLink /\ [][NextLink]_vars

InitBind ==
    /\ IdleBuilder /\ IdleAdapt /\ IdleMounter /\ IdleRun
    /\ \E kernel \in KernelPaths, drives \in DriveLists, baseDir \in BaseDirs,
          process \in {NoProcess, Process(JailedPid)} :
         m = Machine(Config(kernel, drives,
                            JailerConfig(baseDir, BindMountDevMapperStrategy)),
                     process)
    /\ fs = InitFs
    /\ mounts = <<>>
    /\ pc = "configured"

NextBind == BindMountAdapt \/ RunMountToRootFS \/ RunUmountDrive

SpecBind == InitBind /\ [][NextBind]_vars

InitMounter ==
    /\ IdleBuilder /\ IdleAdapt /\ IdleMachine /\ IdleMounter /\ IdleRun
    /\ pc = "new"

NextMounter == EnterNS \/ DoMount \/ Close \/ Migrate

SpecMounter == InitMounter /\ [][NextMounter]_vars

\* NewMachine calls jail for a configuration that has a JailerCfg
Jail ==
    /\ pc = "configured"
    /\ LET r == jail(m, m.cfg, handlers)
       IN /\ m' = [m EXCEPT !.cfg = r.cfg, !.cmd = r.cmd]
          /\ handlers' = r.handlers
          /\ adaptErr' = r.err
          /\ pc' = IF IsNil(r.err) THEN "adapted" ELSE "adaptFailed"
    /\ UNCHANGED <<b, res, call, fs, mounts, trace, ret, mtr, threadNs, g>>

InitJail ==
    /\ IdleBuilder /\ IdleMounter /\ IdleRun
    /\ handlers \in [FcInit : HandlerLists(FcInitNames), Finish : {<<>>}]
    /\ adaptErr = NotRun
    /\ \E s \in NaiveStrategies \cup {BindMountDevMapperStrategy},
          baseDir \in BaseDirs, netNS \in NetNSPaths, daemonize \in BOOLEAN,
          level \in SeccompLevelValue :
         m = Machine(Config(<<Root, "img", "vmlinux">>, <<>>,
                            [JailerConfig(baseDir, s) EXCEPT
                                !.NetNS = netNS, !.Daemonize = daemonize,
                                !.SeccompLevel = level]),
                     NoProcess)
    /\ fs = InitFs
    /\ mounts = <<>>
    /\ pc = "configured"

NextJail == Jail

SpecJail == InitJail /\ [][NextJail]_vars

\* a machine of either strategy: adaptation, then its provisioning step, then
\* (bind-mount strategy) the teardown step
InitProvision == InitLink \/ InitBind

NextProvision ==
    \/ NaiveAdapt \/ RunLinkFilesToRootFS
    \/ BindMountAdapt \/ RunMountToRootFS \/ RunUmountDrive

SpecProvision == InitProvision /\ [][NextProvision]_vars

(***************************************************************************)
(* Claims                                                                  *)
(***************************************************************************)
AdaptStep == pc = "configured" /\ pc' # "configured"

\* C1: when FcInit has no handler named CreateMachineHandlerName, AdaptHandlers
\* (of either strategy) returns ErrCreateMachineHandlerMissing and leaves the
\* FcInit and the Finish list exactly as they were.
C1_NoAnchorNoMutation ==
    [][(AdaptStep /\ ~Has(handlers.FcInit, CreateMachineHandlerName))
          => /\ adaptErr' = ErrCreateMachineHandlerMissing
             /\ handlers'.FcInit = handlers.FcInit
             /\ handlers'.Finish = handlers.Finish]_vars

\* an adaptation was refused for lists that hold handlers
C1_Witness ==
    /\ pc = "adaptFailed"
    /\ adaptErr = ErrCreateMachineHandlerMissing
    /\ Len(handlers.FcInit) > 0
    /\ Len(handlers.Finish) > 0

Umounts == SelectSeq(trace, LAMBDA e : e.op = "umount")

\* the path of artifact k in the configuration (0: the kernel image)
ArtifactPath(cfg, k) ==
    IF k = 0 THEN cfg.KernelImagePath ELSE cfg.Drives[k].PathOnHost

\* C2: one run of finish.umountDrive attempts the unmount of the kernel image
\* target and of every drive's target, in order, whichever of them fail.
C2_AllUnmountsAttempted ==
    pc = "finished" =>
        /\ Len(Umounts) = 1 + Len(m.cfg.Drives)
        /\ \A j \in 1..Len(Umounts) :
             /\ Umounts[j].k = j - 1
             /\ Umounts[j].dst = Join(<<rootDir(m.cfg.JailerCfg),
                                        ArtifactPath(m.cfg, j - 1)>>)

\* the kernel image's unmount failed and a drive's unmount after it succeeded
C2_Witness ==
    /\ pc = "finished"
    /\ Len(Umounts) >= 2
    /\ ~Umounts[1].ok
    /\ Umounts[Len(Umounts)].ok

FailedUmounts == SelectSeq(Umounts, LAMBDA e : ~e.ok)

\* C3: finish.umountDrive returns an error exactly when an unmount failed, and
\* the aggregate it returns holds one entry per failed unmount.
C3_ErrorIffUnmountFailed ==
    pc = "finished" =>
        /\ IsNil(ret) <=> Len(FailedUmounts) = 0
        /\ ~IsNil(ret) =>
             /\ Len(ret.errs) = Len(FailedUmounts)
             /\ \A j \in 1..Len(ret.errs) : ret.errs[j].path = FailedUmounts[j].dst

\* C4: LinkFilesHandler is fail-fast: a failed link or chown is the last call
\* the step attempts, and its error is what the step returns; a failed link is
\* not followed by the chown of that file.
C4_LinkFailFast ==
    pc = "provisioned" =>
        /\ \A j \in 1..Len(trace) :
             ~trace[j].ok => /\ j = Len(trace)
                             /\ ret.kind = trace[j].op
                             /\ ret.path = trace[j].dst
        /\ IsNil(ret) => \A j \in 1..Len(trace) : trace[j].ok

\* the link of the kernel image failed with drives configured
C4_Witness ==
    /\ pc = "provisioned"
    /\ Len(m.cfg.Drives) >= 1
    /\ Len(trace) >= 1
    /\ ~trace[1].ok

LinkStep == pc = "adapted" /\ pc' = "provisioned"

\* the name dst is a hard link to the file src named, owned by uid/gid
IsOwnedLink(oldFs, newFs, src, dst, uid, gid) ==
    /\ dst \in DOMAIN newFs.names
    /\ dst \notin DOMAIN oldFs.names
    /\ newFs.names[dst] = oldFs.names[src]
    /\ newFs.owner[newFs.names[dst]] = [uid |-> uid, gid |-> gid]

\* C5: when the link step succeeds, the kernel image path is the basename of
\* the kernel path the strategy holds (the configuration's original one when
\* the strategy was built from it), every drive's host path is the basename of
\* its original host path, and each of them names a hard link directly under
\* the jail root (the strategy's Rootfs/root) owned by the configured UID/GID.
C5_LinkSuccess ==
    [][(LinkStep /\ IsNil(ret')) =>
        LET s        == m.cfg.JailerCfg.DevMapperStrategy
            jailRoot == s.Rootfs \o rootfsFolderName
            uid      == m.cfg.JailerCfg.UID
            gid      == m.cfg.JailerCfg.GID
        IN /\ m'.cfg.KernelImagePath = <<s.KernelImagePath[Len(s.KernelImagePath)]>>
           /\ s.KernelImagePath = m.cfg.KernelImagePath =>
                m'.cfg.KernelImagePath =
                    <<m.cfg.KernelImagePath[Len(m.cfg.KernelImagePath)]>>
           /\ IsOwnedLink(fs, fs', m.cfg.KernelImagePath,
                          jailRoot \o m'.cfg.KernelImagePath, uid, gid)
           /\ Len(m'.cfg.Drives) = Len(m.cfg.Drives)
           /\ \A i \in 1..Len(m.cfg.Drives) :
                LET old == m.cfg.Drives[i].PathOnHost
                    new == m'.cfg.Drives[i].PathOnHost
                IN /\ new = <<old[Len(old)]>>
                   /\ IsOwnedLink(fs, fs', old, jailRoot \o new, uid, gid)]_vars

\* the link step succeeded for a kernel image and two drives
C5_Witness ==
    /\ pc = "provisioned"
    /\ IsNil(ret)
    /\ Len(m.cfg.Drives) = 2
    /\ Len(trace) = 6

\* C6: after EnterNS, any Mounts and Close, the calling thread is in the mount
\* namespace it was in before EnterNS (every thread starts in the host's).
C6_NamespaceRestored ==
    pc = "closed" => \A t \in Threads : threadNs[t] = HostNs

SetnsStep == Len(trace') > Len(trace) /\ trace'[Len(trace')].op = "setns"

\* C7: when EnterNS calls setns the goroutine is already locked to its OS
\* thread, and it is still locked when EnterNS returns.
C7_PinnedBeforeSetns ==
    [][SetnsStep => (g.locked > 0 /\ g'.locked > 0)]_vars

\* C8: after EnterNS, k Mounts and Close the goroutine holds no lock of its
\* OS thread: LockOSThread and UnlockOSThread calls balance.
C8_PinsBalance ==
    pc = "closed" => g.locked = 0

\* C9: Args() is --id, --uid, --gid, --exec-file, --node with their values,
\* then --chroot-base-dir iff the base dir is non-empty, then --netns iff the
\* network namespace path is non-empty, then --seccomp-level, then a trailing
\* --daemonize iff daemonize is set; nothing else.
C9_ArgsFixedOrder ==
    LET a       == Args(b)
        hasBase == b.chrootBaseDir # EmptyString
        hasNet  == b.netNS # EmptyString
        p2      == 10 + (IF hasBase THEN 2 ELSE 0)
        p3      == p2 + (IF hasNet THEN 2 ELSE 0)
    IN /\ Len(a) = p3 + 2 + (IF b.daemonize THEN 1 ELSE 0)
       /\ SubSeq(a, 1, 10) =
            << <<"--id">>, b.id, <<"--uid">>, <<ToString(b.uid)>>,
               <<"--gid">>, <<ToString(b.gid)>>, <<"--exec-file">>, b.execFile,
               <<"--node">>, <<ToString(b.node)>> >>
       /\ hasBase => a[11] = <<"--chroot-base-dir">> /\ a[12] = b.chrootBaseDir
       /\ hasNet => a[p2 + 1] = <<"--netns">> /\ a[p2 + 2] = b.netNS
       /\ a[p3 + 1] = <<"--seccomp-level">>
       /\ a[p3 + 2] = <<ToString(b.seccompLevel)>>
       /\ b.daemonize => a[Len(a)] = <<"--daemonize">>

\* a builder with every optional flag set
C9_Witness ==
    /\ b.chrootBaseDir # EmptyString
    /\ b.netNS # EmptyString
    /\ b.daemonize
    /\ b.id # EmptyString
    /\ Len(Args(b)) = 17

\* the parameter each setter sets
SetterField(name) ==
    CASE name = "WithBin"           -> "bin"
      [] name = "WithID"            -> "id"
      [] name = "WithUID"           -> "uid"
      [] name = "WithGID"           -> "gid"
      [] name = "WithExecFile"      -> "execFile"
      [] name = "WithNumaNode"      -> "node"
      [] name = "WithChrootBaseDir" -> "chrootBaseDir"
      [] name = "WithNetNS"         -> "netNS"
      [] name = "WithDaemonize"     -> "daemonize"
      [] name = "WithSeccompLevel"  -> "seccompLevel"
      [] name = "WithStdout"        -> "stdout"
      [] name = "WithStderr"        -> "stderr"
      [] name = "WithStdin"         -> "stdin"

\* two setter calls on bb: on different parameters they commute, on the same
\* parameter the last call wins
CommuteOrLastWins(bb) ==
    \A f1 \in Setters, f2 \in Setters :
      \A v1 \in SetterArgs(f1), v2 \in SetterArgs(f2) :
        LET r12 == Apply(f2, Apply(f1, bb, v1).ret, v2)
            r21 == Apply(f1, Apply(f2, bb, v2).ret, v1)
        IN /\ Apply(f1, bb, v1).recv = bb
           /\ IF f1 # f2 THEN r12.ret = r21.ret
              ELSE r12.ret = Apply(f2, bb, v2).ret

\* C10: a With* call returns a builder that differs from the receiver in the
\* one parameter set only and leaves the receiver as it was (its Args, Bin and
\* streams too); so setters on different parameters commute and for one
\* parameter the last call wins.
C10_SetterFrame ==
    /\ [][call'.name # "none" =>
            /\ b' = b
            /\ res'[SetterField(call'.name)] = call'.arg
            /\ \A f \in DOMAIN b \ {SetterField(call'.name)} : res'[f] = b[f]
            /\ Args(b') = Args(b) /\ Bin(b') = Bin(b)
            /\ Stdin(b') = Stdin(b) /\ Stdout(b') = Stdout(b)
            /\ Stderr(b') = Stderr(b)]_vars
    /\ [](call.name = "none" => CommuteOrLastWins(b))

\* a setter returned a builder that differs from its receiver
C10_Witness ==
    /\ call.name = "WithNetNS"
    /\ res.netNS # b.netNS
    /\ b.id # EmptyString

\* the list l without its element at position i
RemoveAt(l, i) == SubSeq(l, 1, i - 1) \o SubSeq(l, i + 1, Len(l))

\* the handler an adaptation of strategy s injects into FcInit
InjectedFcInit(s) ==
    IF s.kind = "naive"
    THEN Handler(LinkFilesToRootFSHandlerName,
                 Fn("LinkFiles", s.Rootfs \o rootfsFolderName,
                    <<s.KernelImagePath[Len(s.KernelImagePath)]>>))
    ELSE Handler(MountToRootFSHandlerName, Fn("s.handler", EmptyString, EmptyString))

InjectedFinish ==
    Handler(UmountDriveHandlerName, Fn("umountDrive", EmptyString, EmptyString))

NamedCount(l, name) == Cardinality({i \in 1..Len(l) : l[i].Name = name})

\* C11: with the anchor present, an adaptation succeeds and its FcInit step is
\* the immediate successor of the CreateMachineHandlerName step, the steps
\* FcInit held before keep their order (FcInit without the new step is the old
\* FcInit); the link strategy leaves Finish alone, the bind-mount strategy
\* leaves Finish with exactly one finish.umountDrive step: appended last when
\* there was none, put in the place of the existing one otherwise.
C11_AdaptPositions ==
    [][(AdaptStep /\ Has(handlers.FcInit, CreateMachineHandlerName)) =>
        LET s   == m.cfg.JailerCfg.DevMapperStrategy
            old == handlers.FcInit
            new == handlers'.FcInit
            a   == CHOOSE i \in 1..Len(old) : old[i].Name = CreateMachineHandlerName
        IN /\ adaptErr' = ErrNil
           /\ Len(new) = Len(old) + 1
           /\ new[a] = old[a]
           /\ new[a + 1] = InjectedFcInit(s)
           /\ RemoveAt(new, a + 1) = old
           /\ s.kind = "naive" => handlers'.Finish = handlers.Finish
           /\ s.kind = "bindmount" =>
                /\ NamedCount(handlers'.Finish, UmountDriveHandlerName) = 1
                /\ IF ~Has(handlers.Finish, UmountDriveHandlerName)
                   THEN handlers'.Finish = Append(handlers.Finish, InjectedFinish)
                   ELSE /\ Len(handlers'.Finish) = Len(handlers.Finish)
                        /\ \A j \in 1..Len(handlers.Finish) :
                             handlers'.Finish[j] =
                                 IF handlers.Finish[j].Name = UmountDriveHandlerName
                                 THEN InjectedFinish
                                 ELSE handlers.Finish[j]]_vars

\* a bind-mount adaptation put its step between the anchor and a later step
\* and replaced a finish.umountDrive step that was not the last of Finish
C11_Witness ==
    /\ pc = "adapted"
    /\ Len(handlers.FcInit) = 3
    /\ handlers.FcInit[1].Name = CreateMachineHandlerName
    /\ handlers.FcInit[2] = InjectedFcInit(BindMountDevMapperStrategy)
    /\ Len(handlers.Finish) = 2
    /\ handlers.Finish[1] = InjectedFinish
    /\ handlers.Finish[2].Name = "finish.other"

MountStep == pc = "adapted" /\ pc' = "provisioned" /\ m.cmd.Process # NoProcess

\* the entries of the trace tr that are for artifact k
TraceOf(tr, k) == SelectSeq(tr, LAMBDA e : e.k = k)

\* artifact k's placeholder was created and its bind mount made
BindMounted(tr, k) ==
    LET t == TraceOf(tr, k)
    IN /\ Len(t) = 2
       /\ t[1].op = "touch" /\ t[1].ok
       /\ t[2].op = "mount" /\ t[2].ok

\* C12: a run of the MountToRootFS step (for a launched process) returns an
\* error exactly when some artifact was not prepared and mounted; a failed
\* command is the last the step runs, and nothing is created or mounted for
\* the artifacts after the first one that failed; when no artifact fails the
\* kernel image path and every drive's host path are their basenames.
C12_BindMountFailFast ==
    [][MountStep =>
        LET n == Len(m.cfg.Drives)
        IN /\ IsNil(ret') <=> \A k \in 0..n : BindMounted(trace', k)
           /\ \A j \in 1..Len(trace') : ~trace'[j].ok => j = Len(trace')
           /\ \A k \in 0..n :
                ~BindMounted(trace', k) =>
                    \A j \in 1..Len(trace') : trace'[j].k <= k
           /\ IsNil(ret') =>
                /\ m'.cfg.KernelImagePath =
                       <<m.cfg.KernelImagePath[Len(m.cfg.KernelImagePath)]>>
                /\ Len(m'.cfg.Drives) = n
                /\ \A i \in 1..n :
                     m'.cfg.Drives[i].PathOnHost =
                         <<m.cfg.Drives[i].PathOnHost[Len(m.cfg.Drives[i].PathOnHost)]>>]_vars

\* the step failed at the first of two drives, after the kernel image
C12_Witness ==
    /\ pc = "provisioned"
    /\ ~IsNil(ret)
    /\ Len(m.cfg.Drives) = 2
    /\ BindMounted(trace, 0)
    /\ Len(TraceOf(trace, 1)) >= 1
    /\ ~trace[Len(trace)].ok

\* C13: after the MountToRootFS step succeeded, the mount at a drive's jail
\* target is read-only exactly when the drive is configured read-only.
C13_ReadOnlyRemounted ==
    (pc = "provisioned" /\ IsNil(ret)) =>
        \A i \in 1..Len(m.cfg.Drives) :
            LET target == Join(<<rootDir(m.cfg.JailerCfg), m.cfg.Drives[i].PathOnHost>>)
            IN m.cfg.Drives[i].IsReadOnly <=>
                   \E j \in 1..Len(mounts) : mounts[j].target = target /\ mounts[j].ro

\* C14: run before the process was started (m.cmd.Process is nil), the
\* MountToRootFS step creates no placeholder, makes no mount and returns an
\* error; it does not panic.
C14_NoPidDescribableError ==
    (pc = "provisioned" /\ m.cmd.Process = NoProcess) =>
        /\ trace = <<>>
        /\ mounts = <<>>
        /\ ~IsNil(ret)
        /\ ret.kind # "panic: nil pointer dereference"

ProvisionStep == pc = "adapted" /\ pc' = "provisioned"

\* C15: one run of a provisioning step (link or bind-mount) works through the
\* artifacts in configuration order, the kernel image first and then the
\* drives as listed, each on its configured path; everything done for an
\* artifact comes before anything done for the next, which is begun only when
\* the artifact before it is complete; an artifact's link comes before its
\* chown and its placeholder creation before its bind mount, the second being
\* attempted only when the first succeeded.
C15_ConfigurationOrder ==
    [][ProvisionStep =>
        LET tr == trace'
        IN \A j \in 1..Len(tr) :
            LET e == tr[j]
            IN /\ e.k \in 0..Len(m.cfg.Drives)
               /\ e.op \in {"link", "chown", "touch", "mount"}
               /\ e.op \in {"link", "mount"} => e.src = ArtifactPath(m.cfg, e.k)
               /\ e.op \in {"touch", "mount"} =>
                    e.dst = rootDir(m.cfg.JailerCfg)
                              \o <<ArtifactPath(m.cfg, e.k)[Len(ArtifactPath(m.cfg, e.k))]>>
               /\ e.op \in {"link", "touch"} =>
                    \/ j = 1 /\ e.k = 0
                    \/ /\ j > 1
                       /\ e.k = tr[j - 1].k + 1
                       /\ tr[j - 1].op \in {"chown", "mount"}
                       /\ tr[j - 1].ok
               /\ e.op \in {"chown", "mount"} =>
                    /\ j > 1
                    /\ tr[j - 1].k = e.k
                    /\ tr[j - 1].op = (IF e.op = "chown" THEN "link" ELSE "touch")
                    /\ tr[j - 1].ok
                    /\ tr[j - 1].dst = e.dst]_vars

\* a bind-mount run that got to the second drive and failed to create its
\* placeholder
C15_Witness ==
    /\ pc = "provisioned"
    /\ m.cfg.JailerCfg.DevMapperStrategy.kind = "bindmount"
    /\ Len(m.cfg.Drives) = 2
    /\ Len(trace) = 5
    /\ trace[5].op = "touch"
    /\ ~trace[5].ok

MountCallStep == call'.name = "Mount" /\ Len(trace') > Len(trace)

\* C16: a call of mounter.Mount makes, in this order, the creation of the
\* target file, the bind mount, the change of ownership to the mounter's UID
\* and GID, and the read-only remount exactly when readOnly is true; a failed
\* operation is the last one made; the call returns an error exactly when an
\* operation failed, so it returns nil only after all of them succeeded.
C16_MountOrder ==
    [][MountCallStep =>
        LET new  == SubSeq(trace', Len(trace) + 1, Len(trace'))
            full == IF call'.arg
                    THEN <<"create", "mount", "chown", "remount">>
                    ELSE <<"create", "mount", "chown">>
        IN /\ Len(new) \in 1..Len(full)
           /\ \A j \in 1..Len(new) :
                /\ new[j].op = full[j]
                /\ new[j].dst = new[1].dst
                /\ new[j].op \in {"mount", "remount"} => new[j].src = new[2].src
                /\ new[j].op = "chown" =>
                     new[j].uid = mtr.UID /\ new[j].gid = mtr.GID
                /\ ~new[j].ok => j = Len(new)
           /\ ~IsNil(ret') <=> ~new[Len(new)].ok
           /\ IsNil(ret') <=>
                (Len(new) = Len(full) /\ \A j \in 1..Len(new) : new[j].ok)]_vars

\* a read-only Mount whose change of ownership failed
C16_Witness ==
    /\ call.name = "Mount"
    /\ call.arg = TRUE
    /\ ~IsNil(ret)
    /\ trace[Len(trace)].op = "chown"
    /\ ~trace[Len(trace)].ok

\* the argument vector a holds flag followed by value
HasFlagValue(a, flag, value) ==
    \E i \in 1..(Len(a) - 1) : a[i] = <<flag>> /\ a[i + 1] = value

HasFlag(a, flag) == \E i \in 1..Len(a) : a[i] = <<flag>>

\* C17: the arguments of the command jail() builds reflect the configuration:
\* they hold --netns <path> exactly when the configured network namespace
\* path is non-empty, --chroot-base-dir <path> exactly when the configured
\* base dir is non-empty, --daemonize exactly when Daemonize is set, and the
\* configured id, uid, gid, exec file, numa node and seccomp level.
C17_ArgsReflectConfig ==
    pc = "adapted" =>
        LET a == m.cmd.Args
            j == m.cfg.JailerCfg
        IN /\ IF j.NetNS # EmptyString
              THEN HasFlagValue(a, "--netns", j.NetNS)
              ELSE ~HasFlag(a, "--netns")
           /\ IF j.ChrootBaseDir # EmptyString
              THEN HasFlagValue(a, "--chroot-base-dir", j.ChrootBaseDir)
              ELSE ~HasFlag(a, "--chroot-base-dir")
           /\ HasFlag(a, "--daemonize") <=> j.Daemonize
           /\ HasFlagValue(a, "--id", j.ID)
           /\ HasFlagValue(a, "--uid", <<ToString(j.UID)>>)
           /\ HasFlagValue(a, "--gid", <<ToString(j.GID)>>)
           /\ HasFlagValue(a, "--exec-file", j.ExecFile)
           /\ HasFlagValue(a, "--node", <<ToString(j.NumaNode)>>)
           /\ HasFlagValue(a, "--seccomp-level", <<ToString(j.SeccompLevel)>>)

\* what the provisioning step did, of the whole trace
ProvisionTrace == SelectSeq(trace, LAMBDA e : e.op \in {"touch", "mount"})

MountedTargets ==
    {trace[j].dst : j \in {i \in 1..Len(trace) : trace[i].op = "mount" /\ trace[i].ok}}

UmountTargets == {Umounts[j].dst : j \in 1..Len(Umounts)}

\* C18: after a run of the MountToRootFS step, complete or aborted at any
\* artifact, and a run of finish.umountDrive, every target the first mounted
\* is a target the second tried to unmount, each of them a name directly
\* under <base dir or /srv/jailer>/firecracker/<id>/root; when every
\* artifact was mounted the mounted and the unmounted targets are the same.
C18_MountUmountSymmetry ==
    pc = "finished" =>
        LET j    == m.cfg.JailerCfg
            root == (IF j.ChrootBaseDir = EmptyString
                     THEN <<Root, "srv", "jailer">> ELSE j.ChrootBaseDir)
                    \o <<"firecracker">> \o j.ID \o <<"root">>
        IN /\ MountedTargets \subseteq UmountTargets
           /\ \A d \in MountedTargets :
                Len(d) = Len(root) + 1 /\ SubSeq(d, 1, Len(root)) = root
           /\ (\A k \in 0..Len(m.cfg.Drives) : BindMounted(ProvisionTrace, k))
                => MountedTargets = UmountTargets

\* the provisioning step mounted the kernel image and the first drive and
\* failed at the second drive; the teardown step then ran
C18_Witness ==
    /\ pc = "finished"
    /\ Len(m.cfg.Drives) = 2
    /\ Len(ProvisionTrace) = 5
    /\ ~ProvisionTrace[5].ok
    /\ Cardinality(MountedTargets) = 2
    /\ Len(Umounts) = 3

\* the kernel image and the drives of cfg have pairwise distinct host paths
DistinctHostPaths(cfg) ==
    \A x, y \in 0..Len(cfg.Drives) :
        x # y => ArtifactPath(cfg, x) # ArtifactPath(cfg, y)

\* C19: for a configuration whose kernel image and drives have pairwise
\* distinct host paths, a run of a provisioning step (link or bind-mount) uses
\* no path inside the jail for two different artifacts, also when two host
\* paths have the same basename.
C19_DistinctTargets ==
    [][(ProvisionStep /\ DistinctHostPaths(m.cfg)) =>
        \A i, j \in 1..Len(trace') :
            trace'[i].k # trace'[j].k => trace'[i].dst # trace'[j].dst]_vars

\* artifact k was linked and the link's ownership changed
Linked(tr, k) ==
    LET t == TraceOf(tr, k)
    IN /\ Len(t) = 2
       /\ t[1].op = "link" /\ t[1].ok
       /\ t[2].op = "chown" /\ t[2].ok

\* C20: after a run of the link step a drive's host path is its basename if
\* that drive's link and chown both succeeded and is as it was otherwise; the
\* kernel image path is rewritten (to the file name the step was built with)
\* if every artifact succeeded and is as it was otherwise; so after a failure
\* there is a k such that the drives before k hold basenames and the kernel
\* image and the drives from k on hold their original paths.
C20_LinkRewriteUnderFailure ==
    [][LinkStep =>
        LET n   == Len(m.cfg.Drives)
            s   == m.cfg.JailerCfg.DevMapperStrategy
            old == [i \in 1..n |-> m.cfg.Drives[i].PathOnHost]
            new == [i \in 1..n |-> m'.cfg.Drives[i].PathOnHost]
        IN /\ Len(m'.cfg.Drives) = n
           /\ \A i \in 1..n :
                new[i] = IF Linked(trace', i) THEN <<old[i][Len(old[i])]>> ELSE old[i]
           /\ m'.cfg.KernelImagePath =
                IF \A k \in 0..n : Linked(trace', k)
                THEN <<s.KernelImagePath[Len(s.KernelImagePath)]>>
                ELSE m.cfg.KernelImagePath
           /\ ~IsNil(ret') =>
                /\ m'.cfg.KernelImagePath = m.cfg.KernelImagePath
                /\ \E k \in 0..n :
                     /\ ~Linked(trace', k)
                     /\ \A i \in 1..n :
                          new[i] = IF i < k THEN <<old[i][Len(old[i])]>> ELSE old[i]]_vars

\* the link step failed at the second of two drives: the first drive holds
\* its basename, the kernel image and the second drive their host paths
C20_Witness ==
    /\ pc = "provisioned"
    /\ m.cfg.JailerCfg.DevMapperStrategy.kind = "naive"
    /\ ~IsNil(ret)
    /\ Len(m.cfg.Drives) = 2
    /\ Linked(trace, 0) /\ Linked(trace, 1)
    /\ Len(m.cfg.Drives[1].PathOnHost) = 1
    /\ Len(m.cfg.Drives[2].PathOnHost) > 1
    /\ Len(m.cfg.KernelImagePath) > 1

JailStep == pc = "configured" /\ pc' # "configured"

\* C21: when jail() returns ErrCreateMachineHandlerMissing (no step named
\* CreateMachineHandlerName in FcInit), the machine's command m.cmd and the
\* configuration's SocketPath are what they were before the call.
C21_JailErrorLeavesState ==
    [][(JailStep /\ adaptErr' = ErrCreateMachineHandlerMissing) =>
        /\ m'.cmd = m.cmd
        /\ m'.cfg.SocketPath = m.cfg.SocketPath]_vars

====
